---- MODULE Spec2Model ----
(***************************************************************************)
(* Model of gamma.yieldengine.partition (_partition.py): the Partitioner   *)
(* hierarchy (ContinuousRangePartitioner, IntegerRangePartitioner,         *)
(* CategoryPartitioner), one instance, its constructor and its fit calls.  *)
(*                                                                         *)
(* Numbers are exact decimals held as integers in units of 1/Scale, so     *)
(* 0.5 is 500 and 0.025 is 25.  Python floats are modelled by this exact   *)
(* arithmetic; binary rounding error of float operations is not modelled.  *)
(* An Optional value is <<>> for None and <<x>> for the value x.           *)
(***************************************************************************)
EXTENDS Integers, Sequences, FiniteSets, TLC

VARIABLES cls, self, tie, call

vars == <<cls, self, tie, call>>

(* ------------------------------ bounds --------------------------------- *)

\* longest values sequence handed to a range partitioner's fit
MaxLen == 2
\* the values a range partitioner observes are the integers 0 .. MaxVal
MaxVal == 1
\* longest values sequence handed to CategoryPartitioner.fit
MaxCatLen == 3
\* the categories observed are 0 .. MaxCat
MaxCat == 2
\* largest explicit max_partitions argument tried
MaxPartitionsArg == 3

(* ----------------------------- constants ------------------------------- *)

DEFAULT_MAX_PARTITIONS == 20
\* q=0.025 and q=0.975 of np.quantile, in 1/Scale
QLow == 25
QHigh == 975

Scale == 10 * 10 * 10

None == <<>>
Some(x) == <<x>>
IsNone(o) == o = <<>>
Val(o) == o[1]

(* --------------------------- Python arithmetic ------------------------- *)

\* math.floor(a / b), b > 0
Floor(a, b) == a \div b

\* math.ceil(a / b), b > 0
Ceil(a, b) == -((-a) \div b)

\* int(a / b): truncation toward zero, b > 0
IntTrunc(a, b) == IF a >= 0 THEN a \div b ELSE -((-a) \div b)

\* round(a / b): Python 3 rounds halves to the even neighbour, b > 0
Round(a, b) ==
    LET q == a \div b
        r == a % b
    IN  IF 2 * r < b THEN q
        ELSE IF 2 * r > b THEN q + 1
        ELSE IF q % 2 = 0 THEN q ELSE q + 1

Max(a, b) == IF a >= b THEN a ELSE b

SetMin(S) == CHOOSE x \in S : \A y \in S : x <= y

\* s[:n] with n a non-negative int, or the whole of s when n is None
Slice(s, n) ==
    IF IsNone(n) THEN s
    ELSE IF Val(n) >= Len(s) THEN s ELSE SubSeq(s, 1, Val(n))

(* ------------------------------ inputs --------------------------------- *)

RangeClasses == {"ContinuousRangePartitioner", "IntegerRangePartitioner"}

ValueSet == {k * Scale : k \in 0 .. MaxVal}

ValueSeqs == UNION {[1 .. n -> ValueSet] : n \in 0 .. MaxLen}

CategorySeqs == UNION {[1 .. n -> 0 .. MaxCat] : n \in 0 .. MaxCatLen}

\* max_partitions arguments: None (also the omitted default of the range
\* partitioners) or an int
MaxPartitionsArgs == {None} \cup {Some(k) : k \in 0 .. MaxPartitionsArg}

\* explicit bounds tried at construction: 0.5, 1.5 and 4
LowerBoundArgs == {None, Some(500), Some(4000)}
UpperBoundArgs == {None, Some(1500), Some(4000)}

\* bounds passed to fit
FitBoundArgs == {<<None, None>>, <<Some(1000), Some(3000)>>}

\* orders in which pandas may list equally frequent values
TiePolicies == {"first_seen", "by_value"}

NoInstance ==
    [_max_partitions |-> None, _lower_bound |-> None, _upper_bound |-> None,
     _step |-> None, _first_partition |-> None, _last_partition |-> None,
     _n_partitions |-> None, _frequencies |-> None, _partitions |-> None]

\* the last call made: its arguments, whether it raised, and the values of
\* fit's local variables lower_bound / upper_bound when it ended
NoCall ==
    [op |-> "none", raised |-> FALSE, given |-> FALSE, max_partitions |-> None,
     values |-> <<>>, lower_arg |-> None, upper_arg |-> None,
     lower |-> None, upper |-> None]

\* a max_partitions argument: omitted, or given as None or as an int
CtorArgs ==
    {[given |-> FALSE, value |-> None]}
        \cup {[given |-> TRUE, value |-> m] : m \in MaxPartitionsArgs}

(* ----------------------------- Partitioner ----------------------------- *)

\* Partitioner.__init__ raises ValueError
PartitionerInitRaises(max_partitions) ==
    /\ ~IsNone(max_partitions)
    /\ Val(max_partitions) < 2

\* self._max_partitions as Partitioner.__init__ leaves it
PartitionerInit(max_partitions) ==
    IF IsNone(max_partitions) THEN Some(DEFAULT_MAX_PARTITIONS)
    ELSE max_partitions

\* is_fitted() of RangePartitioner and of CategoryPartitioner
IsFitted(s) == ~IsNone(s._frequencies)

(* --------------------------- RangePartitioner -------------------------- *)

\* RangePartitioner.__init__ raises ValueError for the bounds
RangeInitRaises(lower_bound, upper_bound) ==
    /\ ~IsNone(lower_bound)
    /\ ~IsNone(upper_bound)
    /\ Val(lower_bound) >= Val(upper_bound)

\* np.quantile(values, q) with linear interpolation, q in 1/Scale;
\* values is not empty
Quantile(values, q) ==
    LET x == SortSeq(values, LAMBDA a, b : a < b)
        pos == q * (Len(values) - 1)
        i == pos \div Scale
        frac == pos % Scale
    IN  IF frac = 0 THEN x[i + 1]
        ELSE x[i + 1] + (frac * (x[i + 2] - x[i + 1])) \div Scale

\* np.quantile of an empty sequence gives no number, and fit ends with an
\* error before it assigns anything
QuantileRaises(s, values) ==
    /\ values = <<>>
    /\ IsNone(s._lower_bound) \/ IsNone(s._upper_bound)

\* fit's local variables lower_bound and upper_bound at line 187; the
\* arguments lower_arg and upper_arg are overwritten at lines 175-176
ResolveBounds(s, values, lower_arg, upper_arg) ==
    LET lower0 == s._lower_bound
        upper0 == s._upper_bound
        lower1 == IF IsNone(lower0) THEN Quantile(values, QLow) ELSE Val(lower0)
    IN  IF IsNone(upper0)
        THEN LET upper1 == Quantile(values, QHigh)
             IN  [lower |-> lower1,
                  upper |-> IF upper1 < lower1 THEN lower1 ELSE upper1]
        ELSE [lower |-> IF Val(upper0) < lower1 THEN Val(upper0) ELSE lower1,
              upper |-> Val(upper0)]

\* 10 ** math.ceil(math.log10(a / b)) in 1/Scale, for a / b > 0 given in
\* 1/Scale: the least power of ten p, from 1/Scale up, with p >= a / b
RECURSIVE Pow10Ceil(_, _, _)
Pow10Ceil(p, a, b) == IF p * b >= a THEN p ELSE Pow10Ceil(10 * p, a, b)

\* _ceil_step raises ValueError for the step a / b
CeilStepRaises(a, b) == a <= 0

\* _ceil_step trying the factors 1 and 2 only
CeilStepNoFive(a, b) == SetMin({Pow10Ceil(1, a * m, b) \div m : m \in {1, 2}})

\* _ceil_step(a / b) in 1/Scale, for a / b > 0
CeilStep(a, b) == SetMin({Pow10Ceil(1, a * m, b) \div m : m \in {1, 2, 5}})

\* _step_size dividing the range by max_partitions, not max_partitions - 1
StepSizePerPartition(c, max_partitions, lower_bound, upper_bound) ==
    LET nice == CeilStep(upper_bound - lower_bound, max_partitions)
    IN  IF c = "ContinuousRangePartitioner" THEN nice
        ELSE Max(1, nice \div Scale) * Scale

\* _step_size of the two variants, in 1/Scale
StepSize(c, max_partitions, lower_bound, upper_bound) ==
    LET nice == CeilStep(upper_bound - lower_bound, max_partitions - 1)
    IN  IF c = "ContinuousRangePartitioner" THEN nice
        ELSE Max(1, nice \div Scale) * Scale

\* _partition_center_offset of the two variants, in 1/Scale
PartitionCenterOffset(c, step) ==
    IF c = "ContinuousRangePartitioner" THEN step \div 2
    ELSE ((step \div Scale) \div 2) * Scale

\* the bucket index fit computes for a value
PartitionIndex(value, first_partition, step) ==
    IntTrunc(Round(value - first_partition, Scale) * Scale, step)

\* fit's local function _frequencies
Frequencies(values, first_partition, step, n_partitions) ==
    [idx \in 1 .. n_partitions |->
        Cardinality({k \in DOMAIN values :
            PartitionIndex(values[k], first_partition, step) = idx - 1})]

\* fit raises before line 190 assigns self._step
RangeFitRaises(c, s, values, lower_arg, upper_arg) ==
    \/ QuantileRaises(s, values)
    \/ LET b == ResolveBounds(s, values, lower_arg, upper_arg)
       IN  CeilStepRaises(b.upper - b.lower, Val(s._max_partitions) - 1)

\* fit computing the step only while the instance has none
RangeFitStepKept(c, s, values, lower_arg, upper_arg) ==
    LET b == ResolveBounds(s, values, lower_arg, upper_arg)
        step == IF IsNone(s._step)
                THEN StepSize(c, Val(s._max_partitions), b.lower, b.upper)
                ELSE Val(s._step)
        first_partition == Floor(2 * b.lower + step, 2 * step) * step
        last_partition == Ceil(2 * b.upper - step, 2 * step) * step
        n_partitions == Round(last_partition - first_partition, step) + 1
    IN  [s EXCEPT
            !._step = Some(step),
            !._first_partition = Some(first_partition),
            !._last_partition = Some(last_partition),
            !._n_partitions = Some(n_partitions),
            !._frequencies =
                Some(Frequencies(values, first_partition, step, n_partitions))]

\* the instance after a fit that does not raise
RangeFit(c, s, values, lower_arg, upper_arg) ==
    LET b == ResolveBounds(s, values, lower_arg, upper_arg)
        step == StepSize(c, Val(s._max_partitions), b.lower, b.upper)
        first_partition == Floor(2 * b.lower + step, 2 * step) * step
        last_partition == Ceil(2 * b.upper - step, 2 * step) * step
        n_partitions == Round(last_partition - first_partition, step) + 1
    IN  [s EXCEPT
            !._step = Some(step),
            !._first_partition = Some(first_partition),
            !._last_partition = Some(last_partition),
            !._n_partitions = Some(n_partitions),
            !._frequencies =
                Some(Frequencies(values, first_partition, step, n_partitions))]

\* fit dropping the fitted state before it computes the new one
RangeFitOutcomeCleared(c, s, values, lower_arg, upper_arg) ==
    IF RangeFitRaises(c, s, values, lower_arg, upper_arg)
    THEN [NoInstance EXCEPT
            !._max_partitions = s._max_partitions,
            !._lower_bound = s._lower_bound,
            !._upper_bound = s._upper_bound]
    ELSE RangeFit(c, s, values, lower_arg, upper_arg)

\* the instance when fit has returned or raised: every assignment to self
\* comes after the call of _step_size at line 190
RangeFitOutcome(c, s, values, lower_arg, upper_arg) ==
    IF RangeFitRaises(c, s, values, lower_arg, upper_arg) THEN s
    ELSE RangeFit(c, s, values, lower_arg, upper_arg)

\* RangePartitioner.partitions()
RangePartitions(s) ==
    [idx \in 1 .. Val(s._n_partitions) |->
        Val(s._first_partition) + (idx - 1) * Val(s._step)]

\* RangePartitioner.partition_bounds(): <<inclusive lower, exclusive upper>>
PartitionBounds(c, s) ==
    LET center_offset_left == PartitionCenterOffset(c, Val(s._step))
        center_offset_right == Val(s._step) - center_offset_left
        centers == RangePartitions(s)
    IN  [idx \in DOMAIN centers |->
            <<centers[idx] - center_offset_left,
              centers[idx] + center_offset_right>>]

(* -------------------------- CategoryPartitioner ------------------------ *)

\* the number of occurrences of v in values
Count(values, v) == Cardinality({k \in DOMAIN values : values[k] = v})

\* value_counts listing the least frequent value first
BeforeAscending(values, policy, v, w) ==
    \/ Count(values, v) < Count(values, w)
    \/ Count(values, v) = Count(values, w) /\ v < w

\* v is listed before w by value_counts: more frequent first; pandas leaves
\* the order of equally frequent values open, policy fixes it
Before(values, policy, v, w) ==
    LET Key(x) ==
            IF policy = "first_seen"
            THEN SetMin({k \in DOMAIN values : values[k] = x})
            ELSE x
    IN  \/ Count(values, v) > Count(values, w)
        \/ Count(values, v) = Count(values, w) /\ Key(v) < Key(w)

\* the values of the set rest in the order of value_counts
RECURSIVE CountOrder(_, _, _)
CountOrder(values, policy, rest) ==
    IF rest = {} THEN <<>>
    ELSE LET top == CHOOSE v \in rest :
                        \A w \in rest \ {v} : Before(values, policy, v, w)
         IN  <<top>> \o CountOrder(values, policy, rest \ {top})

\* pd.Series(values).value_counts(ascending=False): the distinct values
\* (index) with their counts (values), most frequent first
ValueCounts(values, policy) ==
    LET index == CountOrder(values, policy, {values[k] : k \in DOMAIN values})
    IN  [index |-> index,
         values |-> [i \in DOMAIN index |-> Count(values, index[i])]]

\* the instance after CategoryPartitioner.fit
CategoryFit(s, values, policy) ==
    LET value_counts == ValueCounts(values, policy)
        max_partitions == s._max_partitions
    IN  [s EXCEPT
            !._partitions = Some(Slice(value_counts.index, max_partitions)),
            !._frequencies = Some(Slice(value_counts.values, max_partitions))]

(* ------------------------------ queries -------------------------------- *)

Partitions(c, s) ==
    IF c = "CategoryPartitioner" THEN Val(s._partitions) ELSE RangePartitions(s)

PartitionerLen(c, s) ==
    IF c = "CategoryPartitioner" THEN Len(Val(s._partitions))
    ELSE Val(s._n_partitions)

(* ------------------------------ actions -------------------------------- *)

Init ==
    /\ cls = "none"
    /\ self = NoInstance
    /\ tie = "first_seen"
    /\ call = NoCall

\* ContinuousRangePartitioner(...) or IntegerRangePartitioner(...)
NewRange(c, arg, lower_bound, upper_bound) ==
    /\ cls = "none"
    /\ call' = [NoCall EXCEPT !.op = "init", !.given = arg.given,
                    !.max_partitions = arg.value,
                    !.lower_arg = lower_bound, !.upper_arg = upper_bound,
                    !.raised = \/ PartitionerInitRaises(arg.value)
                               \/ RangeInitRaises(lower_bound, upper_bound)]
    /\ IF call'.raised
       THEN UNCHANGED <<cls, self, tie>>
       ELSE /\ cls' = c
            /\ self' = [NoInstance EXCEPT
                            !._max_partitions = PartitionerInit(arg.value),
                            !._lower_bound = lower_bound,
                            !._upper_bound = upper_bound]
            /\ UNCHANGED tie

\* CategoryPartitioner(...); policy is how this pandas orders ties
NewCategory(arg, policy) ==
    LET max_partitions ==
            IF arg.given THEN arg.value ELSE Some(DEFAULT_MAX_PARTITIONS)
    IN  /\ cls = "none"
        /\ call' = [NoCall EXCEPT !.op = "init", !.given = arg.given,
                        !.max_partitions = arg.value,
                        !.raised = PartitionerInitRaises(max_partitions)]
        /\ IF call'.raised
           THEN UNCHANGED <<cls, self, tie>>
           ELSE /\ cls' = "CategoryPartitioner"
                /\ tie' = policy
                \* line 411 assigns the argument over what line 410 stored
                /\ self' = [NoInstance EXCEPT !._max_partitions = max_partitions]

\* RangePartitioner.fit(values, lower_bound=lower_arg, upper_bound=upper_arg)
FitRange(values, lower_arg, upper_arg) ==
    /\ cls \in RangeClasses
    /\ LET raised == RangeFitRaises(cls, self, values, lower_arg, upper_arg)
           known == ~QuantileRaises(self, values)
           b == ResolveBounds(self, values, lower_arg, upper_arg)
       IN  /\ call' = [NoCall EXCEPT !.op = "fit", !.raised = raised,
                           !.values = values,
                           !.lower_arg = lower_arg, !.upper_arg = upper_arg,
                           !.lower = IF known THEN Some(b.lower) ELSE None,
                           !.upper = IF known THEN Some(b.upper) ELSE None]
           /\ self' = RangeFitOutcome(cls, self, values, lower_arg, upper_arg)
    /\ UNCHANGED <<cls, tie>>

\* CategoryPartitioner.fit(values)
FitCategory(values) ==
    /\ cls = "CategoryPartitioner"
    /\ call' = [NoCall EXCEPT !.op = "fit", !.values = values]
    /\ self' = CategoryFit(self, values, tie)
    /\ UNCHANGED <<cls, tie>>

Next ==
    \/ \E c \in RangeClasses, arg \in CtorArgs,
          lower_bound \in LowerBoundArgs, upper_bound \in UpperBoundArgs :
            NewRange(c, arg, lower_bound, upper_bound)
    \/ \E arg \in CtorArgs, policy \in TiePolicies : NewCategory(arg, policy)
    \/ \E values \in ValueSeqs, b \in FitBoundArgs : FitRange(values, b[1], b[2])
    \/ \E values \in CategorySeqs : FitCategory(values)

Spec == Init /\ [][Next]_vars

(* ---------------------- auxiliary definitions -------------------------- *)

IsRange == cls \in RangeClasses

\* the last call was a fit of a range partitioner that returned
RangeFitReturned == IsRange /\ call.op = "fit" /\ ~call.raised

\* the last call was a fit that raised on a resolved range of zero width
ZeroWidthRaised(k) ==
    /\ k.op = "fit"
    /\ k.raised
    /\ ~IsNone(k.lower)
    /\ k.lower = k.upper

\* the number of occurrences of v in values, counted by filtering
Occurrences(values, v) == Len(SelectSeq(values, LAMBDA x : x = v))

RECURSIVE SumSeq(_)
SumSeq(f) == IF f = <<>> THEN 0 ELSE Head(f) + SumSeq(Tail(f))

RECURSIVE Pow10(_)
Pow10(k) == IF k = 0 THEN 1 ELSE 10 * Pow10(k - 1)

\* the series {d * 10^k : d in {1,2,5}} in 1/Scale, from 0.001 to 50
SeriesExponents == 0 .. 4
NiceSeries == {d * Pow10(k) : d \in {1, 2, 5}, k \in SeriesExponents}

\* the least member of the series that is >= a / b
LeastNice(a, b) ==
    CHOOSE x \in NiceSeries :
        /\ x * b >= a
        /\ \A y \in NiceSeries : y * b >= a => x <= y

\* The decimal representation is exact for every fit that returned: the
\* step asked for, (upper - lower) / (max_partitions - 1), is at least
\* 1/Scale and at most the largest member of NiceSeries.
RepresentationOK ==
    RangeFitReturned =>
        LET a == Val(call.upper) - Val(call.lower)
            b == Val(self._max_partitions) - 1
        IN  a >= b /\ a <= 5 * Pow10(4) * b

(* ------------------------------- claims -------------------------------- *)

\* C1: after every successful fit of a range partitioner, partitions() and
\* frequencies() have the same length n, n = len(partitioner), and
\* 1 <= n <= max_partitions.
C1_LengthsAgreeWithinMax ==
    (IsRange /\ IsFitted(self)) =>
        LET n == Len(Partitions(cls, self))
        IN  /\ n = Len(Val(self._frequencies))
            /\ n = PartitionerLen(cls, self)
            /\ 1 <= n
            /\ n <= Val(self._max_partitions)

\* a fit on observed values after which all max_partitions partitions exist
C1_Witness ==
    /\ RangeFitReturned
    /\ call.values # <<>>
    /\ PartitionerLen(cls, self) = Val(self._max_partitions)

\* C2: after every successful fit of a range partitioner the resolved lower
\* bound lies in the first half-open interval of partition_bounds() and the
\* resolved upper bound in the last one.
C2_BoundsInOuterIntervals ==
    RangeFitReturned =>
        LET bounds == PartitionBounds(cls, self)
            last == bounds[Len(bounds)]
            lower == Val(call.lower)
            upper == Val(call.upper)
        IN  /\ bounds[1][1] <= lower /\ lower < bounds[1][2]
            /\ last[1] <= upper /\ upper < last[2]

\* C3: after a successful fit of a range partitioner frequencies()[idx] is
\* the number of values v with round((v - first_partition) / step) = idx,
\* and the frequencies sum to at most len(values).
C3_FrequenciesCountRoundedQuotient ==
    RangeFitReturned =>
        LET frequencies == Val(self._frequencies)
            first_partition == Val(self._first_partition)
            step == Val(self._step)
        IN  /\ \A idx \in DOMAIN frequencies :
                    frequencies[idx] =
                        Cardinality({k \in DOMAIN call.values :
                            Round(call.values[k] - first_partition, step)
                                = idx - 1})
            /\ SumSeq(frequencies) <= Len(call.values)

\* the bounds fit would resolve if a bound configured at construction came
\* first, then the bound passed to fit, then the percentile of the values
PrecedenceBounds(s, values, lower_arg, upper_arg) ==
    LET given == [s EXCEPT
                    !._lower_bound =
                        IF IsNone(@) THEN lower_arg ELSE @,
                    !._upper_bound =
                        IF IsNone(@) THEN upper_arg ELSE @]
    IN  ResolveBounds(given, values, None, None)

\* C4: fit resolves each bound as the bound configured at construction if
\* set, otherwise the bound passed to fit if supplied, otherwise the
\* 2.5th / 97.5th percentile of the values.
C4_FitArgumentsFillUnsetBounds ==
    (IsRange /\ call.op = "fit" /\ ~IsNone(call.lower)) =>
        LET b == PrecedenceBounds(self, call.values,
                                  call.lower_arg, call.upper_arg)
        IN  /\ call.lower = Some(b.lower)
            /\ call.upper = Some(b.upper)

\* C5: constructing any partitioner with max_partitions < 2 fails and
\* yields no instance, and every instance has an integer
\* max_partitions >= 2 in every reachable state.
C5_MaxPartitionsAtLeastTwo ==
    /\ (/\ call.op = "init"
        /\ call.given
        /\ ~IsNone(call.max_partitions)
        /\ Val(call.max_partitions) < 2) => (call.raised /\ cls = "none")
    /\ cls # "none" =>
            /\ ~IsNone(self._max_partitions)
            /\ Val(self._max_partitions) >= 2

C7_StepIsLeastNiceNumber ==
    RangeFitReturned =>
        LET step == Val(self._step)
            nice == LeastNice(Val(call.upper) - Val(call.lower),
                              Val(self._max_partitions) - 1)
        IN  /\ step > 0
            /\ cls = "ContinuousRangePartitioner" => step = nice
            /\ cls = "IntegerRangePartitioner" =>
                    /\ step = Max(Scale, nice)
                    /\ step % Scale = 0
                    /\ step >= Scale
                    /\ step \in NiceSeries

\* an integer partitioner fitted on a range whose nice number is below 1,
\* so that the minimum step of 1 applies
C7_Witness ==
    /\ RangeFitReturned
    /\ cls = "IntegerRangePartitioner"
    /\ LeastNice(Val(call.upper) - Val(call.lower),
                 Val(self._max_partitions) - 1) < Scale
    /\ self._step = Some(Scale)

\* C8: fitting an IntegerRangePartitioner without explicit bounds on a
\* non-empty sequence of identical values does not raise and gives step 1
\* and one partition whose frequency counts the observations.
C8_IdenticalIntegersFit ==
    (/\ cls = "IntegerRangePartitioner"
     /\ IsNone(self._lower_bound)
     /\ IsNone(self._upper_bound)
     /\ call.op = "fit"
     /\ call.values # <<>>
     /\ \A k \in DOMAIN call.values : call.values[k] = call.values[1]) =>
        /\ ~call.raised
        /\ self._step = Some(Scale)
        /\ self._n_partitions = Some(1)
        /\ self._frequencies = Some(<<Len(call.values)>>)

\* a newly constructed instance with the configuration of s
Fresh(s) ==
    [NoInstance EXCEPT
        !._max_partitions = s._max_partitions,
        !._lower_bound = s._lower_bound,
        !._upper_bound = s._upper_bound]

\* C9: after every successful fit the instance is what a freshly
\* constructed instance of the same configuration is after one fit on the
\* same values: the fitted state is overwritten, nothing of earlier fits is
\* left, and the configuration is unchanged.
C9_FitOverwritesFittedState ==
    [][(call'.op = "fit" /\ ~call'.raised) =>
            self' = IF IsRange
                    THEN RangeFit(cls, Fresh(self), call'.values,
                                  call'.lower_arg, call'.upper_arg)
                    ELSE CategoryFit(Fresh(self), call'.values, tie)]_vars

\* a fit has returned and the instance holds counts for its values
C9_Witness ==
    /\ call.op = "fit"
    /\ ~call.raised
    /\ IsFitted(self)
    /\ SumSeq(Val(self._frequencies)) > 0

\* C10: a fit of a range partitioner that raises because the resolved range
\* has zero width leaves the instance as it was: never fitted stays not
\* fitted, fitted keeps the state of its last successful fit.
C10_FailedFitKeepsState ==
    [][ZeroWidthRaised(call') => self' = self]_vars

\* a fitted range partitioner whose latest fit raised on a zero width
C10_Witness ==
    /\ IsRange
    /\ ZeroWidthRaised(call)
    /\ IsFitted(self)

====
